---- MODULE Spec2Model ----
(***************************************************************************)
(* Orange Pixipal: the desktop-companion overlay.  Two variants of the     *)
(* program are modelled over one state: core.py (OptimizedStickmanOverlay  *)
(* with its SystemMonitorThread) and test.py (StickmanOverlay).            *)
(*                                                                         *)
(* The overlay object is the record `self`; every handler of the program   *)
(* is an operator from records to records (the handler's whole effect,     *)
(* nested calls included) and an action that applies it.                   *)
(*                                                                         *)
(* Time.  The code compares time.time() with stored time stamps.  Each     *)
(* stamp is kept as its age in milliseconds; TimePasses lets an age grow   *)
(* to the next value at which one of the code's comparisons changes.       *)
(* Single-shot timers are "armed" flags that may expire while armed.       *)
(* Positions are whole pixels (the code's float stickman_x is truncated).  *)
(***************************************************************************)
EXTENDS Integers, Sequences, FiniteSets, TLC

VARIABLES
    variant,     \* "core" (core.py) or "test" (test.py): the program that runs
    self,        \* the overlay object (OptimizedStickmanOverlay / StickmanOverlay)
    monitor,     \* core.py: the SystemMonitorThread object and its loop local
    signals,     \* core.py: chrome_status_changed emissions queued for the UI thread
    foreground,  \* the desktop: the foreground window and the process that owns it
    cursors,     \* the desktop: the places pyautogui.position() reports in this run
    tick_ms,     \* the desktop: what vel_timer reads on a tick that follows a tick
    quiet,       \* the user has walked away: no cursor move, click or browser from now on
    played       \* test.py: the clip current after each idle-timer expiry since the last reset

vars == <<variant, self, monitor, signals, foreground, cursors, tick_ms, quiet, played>>

----------------------------------------------------------------------------
(* Clip names: core.py 62-80, test.py 55-67 *)
None == "None"
IDLE_CLIP_1 == "idle_animation_1.gif"
IDLE_CLIP_2 == "idle_animation_2.gif"
IDLE_CLIP_3 == "idle_animation_3.gif"
IDLE_CLIP_4 == "idle_animation_4.gif"
IDLE_CLIP_5 == "idle_animation_5.gif"
WALK_LEFT == "walk_left.gif"
WALK_RIGHT == "walk_right.gif"
RUN_LEFT == "running_animation_left.gif"
RUN_RIGHT == "running_animation_right.gif"
RUN_IDLE_L == "running_idle_left.gif"
RUN_IDLE_R == "running_idle_right.gif"
RUN2SLOW_L == "running_to_slowing_left.gif"
RUN2SLOW_R == "running_to_slowing_right.gif"
CLICK_SINGLE == "single_tap.gif"
CLICK_DOUBLE == "double_tap.gif"
ENJOY == "enjoying_with_us.gif"
WATCHING == "watching.gif"

IDLE_CLIPS == <<IDLE_CLIP_1, IDLE_CLIP_2, IDLE_CLIP_3, IDLE_CLIP_4, IDLE_CLIP_5>>
IdleClipSet == {IDLE_CLIPS[i] : i \in 1..Len(IDLE_CLIPS)}
WalkClips == {WALK_LEFT, WALK_RIGHT}
RunClips == {RUN_LEFT, RUN_RIGHT}
RunIdleClips == {RUN_IDLE_L, RUN_IDLE_R}
SlowClips == {RUN2SLOW_L, RUN2SLOW_R}
ClickClips == {CLICK_SINGLE, CLICK_DOUBLE}
RUNNING_ANIMS == RunClips \cup RunIdleClips \cup SlowClips
AllClips == IdleClipSet \cup WalkClips \cup RUNNING_ANIMS \cup ClickClips \cup {ENJOY, WATCHING}

(* Thresholds and durations *)
WALK_VEL == 50
FAST_CURSOR_SPEED == 400
FAST_CURSOR_SPEED_t == 720
RUN_IDLE_MAX_TIME == 5
IDLE_ANIMATION_TIMEOUT_1 == 40900
IDLE_ANIMATION_TIMEOUT_2 == 4266
IDLE_ANIMATION_TIMEOUT_3 == 31500
IDLE_ANIMATION_TIMEOUT_4 == 8833
IDLE_ANIMATION_TIMEOUT_5 == 0
IDLE_TIMEOUTS == <<IDLE_ANIMATION_TIMEOUT_1, IDLE_ANIMATION_TIMEOUT_2,
                   IDLE_ANIMATION_TIMEOUT_3, IDLE_ANIMATION_TIMEOUT_4,
                   IDLE_ANIMATION_TIMEOUT_5>>
IDLE_ANIMATION_DELAY == 2000
StartIdleDelay == 1000          \* QTimer.singleShot(1000, start_idle_sequence)
StationaryDelay == 1000         \* time since the last cursor move > 1.0 s
double_click_threshold == 400   \* 0.4 s
click_debounce_time == 100      \* 0.1 s
SpeedSamples == 5               \* len(cursor_speed_history) > 5 -> pop(0)
WindowWidth == 150              \* SIZE_RUN = QSize(150, 200), setFixedSize(SIZE_RUN)
CHROME_NAMES == {"chrome.exe", "msedge.exe", "firefox.exe", "brave.exe"}

(* Bounds of the model *)
MaxPending == 1      \* QTimer.singleShot calls of one kind counted as pending; more merge
MaxSignals == 1      \* chrome_status_changed emissions not yet delivered
MaxPlayed == 8       \* idle-timer expiries recorded in `played`
ScreenWidth == 1920  \* pyautogui.size().width
TickElapsed == 100   \* vel_timer reading (ms) on a tick that follows a tick: ticks run late
TickLate == 334      \* the same on a desktop that is busy with other windows
StalePause == 12000  \* vel_timer reading (ms) after ticks that left early (a browser session)

Abs(n) == IF n < 0 THEN -n ELSE n
Min(a, b) == IF a < b THEN a ELSE b
Max(a, b) == IF a > b THEN a ELSE b
RECURSIVE Sum(_)
Sum(q) == IF q = <<>> THEN 0 ELSE Head(q) + Sum(Tail(q))

ENJOY_DURATION == 766
CLICK_SINGLE_DURATION == 766
CLICK_DOUBLE_DURATION == 1133
STICKMAN_FOLLOW_SPEED == 3
FollowDistance == 20     \* core.py: distance_to_cursor > 20 (move, walk)
CaughtUpDistance == 30   \* core.py: distance_to_cursor <= 30
RunDistance == 100       \* core.py: distance_to_cursor > 100
MoveThreshold == 1       \* core.py: abs(dx) > 1 or abs(dy) > 1

----------------------------------------------------------------------------
(* core.py: OptimizedStickmanOverlay *)

\* The clips whose QMovie.finished is connected to on_animation_finished.
FinishClips == {ENJOY, WATCHING, RUN2SLOW_L, RUN2SLOW_R}

reset_idle_sequence(s) ==
    [s EXCEPT !.idle_sequence_index = 0, !.idle_timer = 0]

set_animation(s, clip_name) ==
    IF clip_name = s.cur_name \/ clip_name \notin s.movies
    THEN s
    ELSE [s EXCEPT !.running = (@ \ {s.current_movie}) \cup {clip_name},
                   !.cur_name = clip_name,
                   !.current_movie = clip_name,
                   !.finished_connected =
                       IF clip_name \in FinishClips THEN clip_name ELSE None]

schedule_next_idle(s) ==
    IF ~s.cursor_stationary \/ s.chrome_state # "none"
    THEN s
    ELSE LET timeout_index == Max(0, s.idle_sequence_index - 1) IN
         IF timeout_index < Len(IDLE_TIMEOUTS) /\ IDLE_TIMEOUTS[timeout_index + 1] > 0
         THEN [s EXCEPT !.idle_timer = IDLE_TIMEOUTS[timeout_index + 1]]
         ELSE s

\* play_next_idle with the index advanced before the clip is picked: a clip is skipped
play_next_idle_skipping(s) ==
    IF ~s.cursor_stationary \/ s.movement_locked \/ s.chrome_state # "none"
    THEN s
    ELSE IF s.idle_sequence_index < Len(IDLE_CLIPS)
    THEN LET i == Min(s.idle_sequence_index + 2, Len(IDLE_CLIPS))
             a == set_animation(s, IDLE_CLIPS[i])
         IN  schedule_next_idle(
                 [a EXCEPT !.idle_sequence_index =
                     IF i >= Len(IDLE_CLIPS) THEN Len(IDLE_CLIPS) - 1 ELSE i])
    ELSE s

play_next_idle(s) ==
    IF ~s.cursor_stationary \/ s.movement_locked \/ s.chrome_state # "none"
    THEN s
    ELSE IF s.idle_sequence_index < Len(IDLE_CLIPS)
    THEN LET a == set_animation(s, IDLE_CLIPS[s.idle_sequence_index + 1])
             i == s.idle_sequence_index + 1
         IN  schedule_next_idle(
                 [a EXCEPT !.idle_sequence_index =
                     IF i >= Len(IDLE_CLIPS) THEN Len(IDLE_CLIPS) - 1 ELSE i])
    ELSE s

start_idle_sequence(s) ==
    IF s.cursor_stationary /\ s.chrome_state = "none" /\ ~s.movement_locked
    THEN play_next_idle([s EXCEPT !.idle_sequence_index = 0])
    ELSE s

return_to_idle_1(s) ==
    LET r == reset_idle_sequence(s) IN
    IF IDLE_CLIPS[1] \in r.movies THEN set_animation(r, IDLE_CLIPS[1]) ELSE r

return_to_idle(s) ==
    LET r == reset_idle_sequence(s) IN
    IF IDLE_CLIPS[1] \in r.movies
    THEN [set_animation(r, IDLE_CLIPS[1]) EXCEPT !.start_idle_shots = Min(@ + 1, MaxPending)]
    ELSE r

start_running_idle(s) ==
    IF s.cur_name \in {RUN_LEFT, RUN_RIGHT} /\ ~s.movement_locked
    THEN LET idle_anim == IF s.current_direction = "right" THEN RUN_IDLE_R ELSE RUN_IDLE_L IN
         IF idle_anim \in s.movies
         THEN [set_animation(s, idle_anim) EXCEPT !.running_idle_age = <<0>>]
         ELSE s
    ELSE s

start_watching(s) ==
    LET r == [s EXCEPT !.chrome_state = "watching"] IN
    IF WATCHING \in r.movies THEN set_animation(r, WATCHING) ELSE r

on_animation_finished(s, clip_name) ==
    IF clip_name = ENJOY
    THEN LET r == [s EXCEPT !.chrome_state = "watching"] IN
         IF WATCHING \in r.movies THEN set_animation(r, WATCHING) ELSE r
    ELSE IF clip_name = WATCHING
    THEN IF s.is_chrome_active /\ s.chrome_state = "watching"
         THEN IF WATCHING \in s.movies THEN set_animation(s, WATCHING) ELSE s
         ELSE return_to_idle_1([s EXCEPT !.chrome_state = "none",
                                         !.chrome_fixed_position = <<>>])
    ELSE IF clip_name \in {RUN2SLOW_L, RUN2SLOW_R}
    THEN return_to_idle_1([s EXCEPT !.movement_locked = FALSE,
                                    !.running_idle_age = <<>>])
    ELSE s

force_stop_click_animation(s, expected_clip) ==
    IF s.cur_name = expected_clip THEN return_to_idle_1(s) ELSE s

\* on_chrome_status_changed with the inactive branch leaving chrome_fixed_position set
on_chrome_status_changed_keeping_position(s, is_active) ==
    IF is_active /\ ~s.is_chrome_active
    THEN LET r == reset_idle_sequence(
                    [s EXCEPT !.is_chrome_active = TRUE,
                              !.chrome_first_detected_time = "set",
                              !.chrome_fixed_position = <<s.win_x>>,
                              !.chrome_state = "enjoying"])
         IN  IF ENJOY \in r.movies
             THEN [set_animation(r, ENJOY) EXCEPT !.enjoy_timer = ENJOY_DURATION]
             ELSE r
    ELSE IF ~is_active /\ s.is_chrome_active
    THEN LET r == [s EXCEPT !.is_chrome_active = FALSE,
                            !.chrome_state = "none",
                            !.chrome_first_detected_time = None]
         IN  IF r.cur_name \in {ENJOY, WATCHING} THEN return_to_idle_1(r) ELSE r
    ELSE s

on_chrome_status_changed(s, is_active) ==
    IF is_active /\ ~s.is_chrome_active
    THEN LET r == reset_idle_sequence(
                    [s EXCEPT !.is_chrome_active = TRUE,
                              !.chrome_first_detected_time = "set",
                              !.chrome_fixed_position = <<s.win_x>>,
                              !.chrome_state = "enjoying"])
         IN  IF ENJOY \in r.movies
             THEN [set_animation(r, ENJOY) EXCEPT !.enjoy_timer = ENJOY_DURATION]
             ELSE r
    ELSE IF ~is_active /\ s.is_chrome_active
    THEN LET r == [s EXCEPT !.is_chrome_active = FALSE,
                            !.chrome_state = "none",
                            !.chrome_first_detected_time = None,
                            !.chrome_fixed_position = <<>>]
         IN  IF r.cur_name \in {ENJOY, WATCHING} THEN return_to_idle_1(r) ELSE r
    ELSE s

\* detect_click with the double click measured against the debounce time
detect_click_debounced(s, current_mouse_state) ==
    IF s.last_processed_click_age < click_debounce_time
    THEN s
    ELSE
    LET accepted ==
            /\ current_mouse_state /\ ~s.last_mouse_state
            /\ ~s.movement_locked
            /\ s.chrome_state = "none"
            /\ s.cur_name \notin {ENJOY, WATCHING, RUN2SLOW_L, RUN2SLOW_R}
        clicked ==
            IF s.last_click_age < click_debounce_time
            THEN IF CLICK_DOUBLE \in s.movies
                 THEN [set_animation(reset_idle_sequence(s), CLICK_DOUBLE)
                          EXCEPT !.click_timer_double = CLICK_DOUBLE_DURATION]
                 ELSE s
            ELSE IF CLICK_SINGLE \in s.movies
                 THEN [set_animation(reset_idle_sequence(s), CLICK_SINGLE)
                          EXCEPT !.click_timer_single = CLICK_SINGLE_DURATION]
                 ELSE s
        r == IF accepted
             THEN [clicked EXCEPT !.last_click_age = 0, !.last_processed_click_age = 0]
             ELSE s
    IN  [r EXCEPT !.last_mouse_state = current_mouse_state]

detect_click(s, current_mouse_state) ==
    IF s.last_processed_click_age < click_debounce_time
    THEN s
    ELSE
    LET accepted ==
            /\ current_mouse_state /\ ~s.last_mouse_state
            /\ ~s.movement_locked
            /\ s.chrome_state = "none"
            /\ s.cur_name \notin {ENJOY, WATCHING, RUN2SLOW_L, RUN2SLOW_R}
        clicked ==
            IF s.last_click_age < double_click_threshold
            THEN IF CLICK_DOUBLE \in s.movies
                 THEN [set_animation(reset_idle_sequence(s), CLICK_DOUBLE)
                          EXCEPT !.click_timer_double = CLICK_DOUBLE_DURATION]
                 ELSE s
            ELSE IF CLICK_SINGLE \in s.movies
                 THEN [set_animation(reset_idle_sequence(s), CLICK_SINGLE)
                          EXCEPT !.click_timer_single = CLICK_SINGLE_DURATION]
                 ELSE s
        r == IF accepted
             THEN [clicked EXCEPT !.last_click_age = 0, !.last_processed_click_age = 0]
             ELSE s
    IN  [r EXCEPT !.last_mouse_state = current_mouse_state]

\* update_state, lines 511-529: cursor movement detection and the stationary check
cursor_moved(s, cursor_pos) ==
    \/ Abs(cursor_pos[1] - s.last_cursor_pos[1]) > MoveThreshold
    \/ Abs(cursor_pos[2] - s.last_cursor_pos[2]) > MoveThreshold

stationary_check(s, cursor_pos) ==
    IF cursor_moved(s, cursor_pos)
    THEN LET m == [s EXCEPT !.last_cursor_move_age = 0] IN
         IF m.cursor_stationary
         THEN LET n == [m EXCEPT !.cursor_stationary = FALSE] IN
              IF n.cur_name \in IdleClipSet /\ n.chrome_state = "none"
              THEN reset_idle_sequence(n)
              ELSE n
         ELSE m
    ELSE IF s.last_cursor_move_age > StationaryDelay /\ ~s.cursor_stationary
         THEN LET n == [s EXCEPT !.cursor_stationary = TRUE] IN
              IF n.chrome_state = "none" /\ ~n.movement_locked /\ n.cur_name = IDLE_CLIPS[1]
              THEN start_idle_sequence(n)
              ELSE n
         ELSE s

\* update_state, lines 548-556: the smoothed cursor speed
cursor_speed(dx, elapsed_ms) == (Abs(dx) * 1000) \div elapsed_ms

speed_history(s, moved, dx, elapsed_ms) ==
    IF moved
    THEN LET h == Append(s.cursor_speed_history, cursor_speed(dx, elapsed_ms)) IN
         IF Len(h) > SpeedSamples THEN Tail(h) ELSE h
    ELSE s.cursor_speed_history

avg_cursor_speed(h, moved) ==
    IF moved THEN Sum(h) \div Len(h) ELSE 0

\* update_state, lines 558-577: the stickman follows the cursor
follow_cursor(s, cursor_x, elapsed_ms) ==
    LET distance_to_cursor == Abs(cursor_x - s.stickman_x) IN
    IF distance_to_cursor > FollowDistance
    THEN LET new_direction == IF cursor_x > s.stickman_x THEN "right" ELSE "left"
             u == IF new_direction # s.current_direction /\ s.cur_name \in RUNNING_ANIMS
                  THEN [s EXCEPT !.movement_locked = FALSE, !.running_idle_age = <<>>]
                  ELSE s
             move_amount == Min((distance_to_cursor * STICKMAN_FOLLOW_SPEED * elapsed_ms) \div 1000,
                                distance_to_cursor)
         IN  [u EXCEPT !.current_direction = new_direction,
                       !.stickman_x = IF cursor_x > s.stickman_x
                                      THEN @ + move_amount ELSE @ - move_amount]
    ELSE s

\* update_state, lines 579-586: the window follows the stickman
move_window(s) ==
    LET target_screen_x == Max(0, Min(s.stickman_x - WindowWidth \div 2,
                                      ScreenWidth - WindowWidth)) IN
    IF Abs(target_screen_x - s.win_x) > 1 THEN [s EXCEPT !.win_x = target_screen_x] ELSE s

\* choose_animation with the run decided by distance alone, whatever the speed
choose_animation_any_speed(s, avg_speed, moved, distance_to_cursor) ==
    IF moved /\ distance_to_cursor > RunDistance
    THEN LET run_anim == IF s.current_direction = "right" THEN RUN_RIGHT ELSE RUN_LEFT IN
         IF run_anim \in s.movies /\ ~s.movement_locked
         THEN [set_animation(s, run_anim) EXCEPT !.movement_locked = FALSE,
                                                 !.running_idle_shots = Min(@ + 1, MaxPending)]
         ELSE s
    ELSE IF moved /\ distance_to_cursor > FollowDistance
    THEN LET walk_anim == IF s.current_direction = "right" THEN WALK_RIGHT ELSE WALK_LEFT IN
         IF walk_anim \in s.movies /\ ~s.movement_locked
         THEN set_animation(s, walk_anim)
         ELSE s
    ELSE IF distance_to_cursor <= CaughtUpDistance
    THEN IF s.cur_name \in {RUN_LEFT, RUN_RIGHT, WALK_LEFT, WALK_RIGHT}
         THEN return_to_idle(s)
         ELSE IF s.cur_name \in {RUN_IDLE_L, RUN_IDLE_R}
         THEN IF s.running_idle_age # <<>> /\ s.running_idle_age[1] > RUN_IDLE_MAX_TIME * 1000
              THEN LET slow_anim == IF s.current_direction = "right"
                                    THEN RUN2SLOW_R ELSE RUN2SLOW_L IN
                   IF slow_anim \in s.movies
                   THEN set_animation([s EXCEPT !.movement_locked = TRUE], slow_anim)
                   ELSE s
              ELSE s
         ELSE s
    ELSE s

\* update_state, lines 588-610: which clip plays
choose_animation(s, avg_speed, moved, distance_to_cursor) ==
    IF avg_speed >= FAST_CURSOR_SPEED /\ moved /\ distance_to_cursor > RunDistance
    THEN LET run_anim == IF s.current_direction = "right" THEN RUN_RIGHT ELSE RUN_LEFT IN
         IF run_anim \in s.movies /\ ~s.movement_locked
         THEN [set_animation(s, run_anim) EXCEPT !.movement_locked = FALSE,
                                                 !.running_idle_shots = Min(@ + 1, MaxPending)]
         ELSE s
    ELSE IF moved /\ distance_to_cursor > FollowDistance
    THEN LET walk_anim == IF s.current_direction = "right" THEN WALK_RIGHT ELSE WALK_LEFT IN
         IF walk_anim \in s.movies /\ ~s.movement_locked
         THEN set_animation(s, walk_anim)
         ELSE s
    ELSE IF distance_to_cursor <= CaughtUpDistance
    THEN IF s.cur_name \in {RUN_LEFT, RUN_RIGHT, WALK_LEFT, WALK_RIGHT}
         THEN return_to_idle(s)
         ELSE IF s.cur_name \in {RUN_IDLE_L, RUN_IDLE_R}
         THEN IF s.running_idle_age # <<>> /\ s.running_idle_age[1] > RUN_IDLE_MAX_TIME * 1000
              THEN LET slow_anim == IF s.current_direction = "right"
                                    THEN RUN2SLOW_R ELSE RUN2SLOW_L IN
                   IF slow_anim \in s.movies
                   THEN set_animation([s EXCEPT !.movement_locked = TRUE], slow_anim)
                   ELSE s
              ELSE s
         ELSE s
    ELSE s

\* update_state: one anim_timer tick.  cursor_pos is pyautogui.position(); restarted is
\* what vel_timer reads on the next tick if this one restarts it, pause what it reads
\* if this one leaves early.
update_state(s, cursor_pos, restarted, pause) ==
    LET dx == cursor_pos[1] - s.last_cursor_pos[1]
        moved == cursor_moved(s, cursor_pos)
        a == stationary_check(s, cursor_pos)
    IN
    IF a.chrome_state \in {"enjoying", "watching"} /\ a.chrome_fixed_position # <<>>
    THEN [a EXCEPT !.win_x = a.chrome_fixed_position[1],
                   !.last_cursor_pos = cursor_pos,
                   !.vel_elapsed = Max(@, pause)]
    ELSE IF a.cur_name \in {CLICK_SINGLE, CLICK_DOUBLE, ENJOY, WATCHING} \/ a.movement_locked
    THEN [a EXCEPT !.last_cursor_pos = cursor_pos, !.vel_elapsed = Max(@, pause)]
    ELSE
    LET elapsed_ms == Max(1, a.vel_elapsed)
        h == speed_history(a, moved, dx, elapsed_ms)
        avg == avg_cursor_speed(h, moved)
        distance_to_cursor == Abs(cursor_pos[1] - a.stickman_x)
        b == [a EXCEPT !.vel_elapsed = restarted, !.cursor_speed_history = h]
        c == move_window(follow_cursor(b, cursor_pos[1], elapsed_ms))
        d == choose_animation(c, avg, moved, distance_to_cursor)
    IN  [d EXCEPT !.last_cursor_pos = cursor_pos]

----------------------------------------------------------------------------
(* core.py: SystemMonitorThread *)

\* process.name().lower()
Lower(name) == IF name = "Chrome.EXE" THEN "chrome.exe" ELSE name

\* is_chrome_active_window: <<the value returned, the _process_cache left behind>>.
\* w is the foreground window; lookup_ok is FALSE when psutil.Process(pid) raises
\* NoSuchProcess or AccessDenied.
is_chrome_active_window(cache, w, lookup_ok) ==
    IF w.hwnd = 0
    THEN <<FALSE, cache>>
    ELSE IF w.pid \notin DOMAIN cache
    THEN IF lookup_ok
         THEN LET c == [p \in DOMAIN cache \cup {w.pid} |->
                            IF p = w.pid THEN Lower(w.name) ELSE cache[p]]
              IN  <<c[w.pid] \in CHROME_NAMES, c>>
         ELSE <<FALSE, cache>>
    ELSE <<cache[w.pid] \in CHROME_NAMES, cache>>

----------------------------------------------------------------------------
(* test.py: StickmanOverlay *)

FinishClips_t == {ENJOY, WATCHING, CLICK_SINGLE, CLICK_DOUBLE, RUN2SLOW_L, RUN2SLOW_R}
WalkDistance_t == 50        \* distance_to_cursor > 50
LagDistance_t == 10         \* distance_to_cursor > 10
MaxMoveSpeed_t == 200       \* min(distance_to_cursor * 0.1, 200)

reset_idle_sequence_t(s) ==
    [s EXCEPT !.idle_sequence_index = 0, !.idle_1_play_count = 0, !.idle_timer = 0]

set_animation_t(s, clip_name) ==
    IF clip_name = s.cur_name \/ clip_name \notin s.movies
    THEN s
    ELSE [s EXCEPT !.running = (@ \ {s.current_movie}) \cup {clip_name},
                   !.cur_name = clip_name,
                   !.current_movie = clip_name,
                   !.finished_connected =
                       IF clip_name \in FinishClips_t THEN clip_name ELSE None]

\* play_next_idle with idle_animation_1 requested once instead of twice
play_next_idle_once_t(s) ==
    IF ~s.cursor_stationary
    THEN s
    ELSE
    LET a == IF s.idle_sequence_index = 0
             THEN IF s.idle_1_play_count < 1
                  THEN LET b == [set_animation_t(s, IDLE_CLIPS[1])
                                    EXCEPT !.idle_1_play_count = @ + 1]
                       IN  IF b.idle_1_play_count >= 1
                           THEN [b EXCEPT !.idle_sequence_index = 1]
                           ELSE b
                  ELSE [s EXCEPT !.idle_sequence_index = 1]
             ELSE IF s.idle_sequence_index < Len(IDLE_CLIPS)
             THEN LET b == IF IDLE_CLIPS[s.idle_sequence_index + 1] \in s.movies
                           THEN set_animation_t(s, IDLE_CLIPS[s.idle_sequence_index + 1])
                           ELSE s
                  IN  [b EXCEPT !.idle_sequence_index = @ + 1]
             ELSE LET b == [s EXCEPT !.idle_sequence_index = 4] IN
                  IF IDLE_CLIPS[5] \in b.movies
                  THEN set_animation_t(b, IDLE_CLIPS[5])
                  ELSE b
    IN  IF a.cursor_stationary
        THEN [a EXCEPT !.idle_timer = IDLE_ANIMATION_DELAY]
        ELSE a

play_next_idle_t(s) ==
    IF ~s.cursor_stationary
    THEN s
    ELSE
    LET a == IF s.idle_sequence_index = 0
             THEN IF s.idle_1_play_count < 2
                  THEN LET b == [set_animation_t(s, IDLE_CLIPS[1])
                                    EXCEPT !.idle_1_play_count = @ + 1]
                       IN  IF b.idle_1_play_count >= 2
                           THEN [b EXCEPT !.idle_sequence_index = 1]
                           ELSE b
                  ELSE [s EXCEPT !.idle_sequence_index = 1]
             ELSE IF s.idle_sequence_index < Len(IDLE_CLIPS)
             THEN LET b == IF IDLE_CLIPS[s.idle_sequence_index + 1] \in s.movies
                           THEN set_animation_t(s, IDLE_CLIPS[s.idle_sequence_index + 1])
                           ELSE s
                  IN  [b EXCEPT !.idle_sequence_index = @ + 1]
             ELSE LET b == [s EXCEPT !.idle_sequence_index = 4] IN
                  IF IDLE_CLIPS[5] \in b.movies
                  THEN set_animation_t(b, IDLE_CLIPS[5])
                  ELSE b
    IN  IF a.cursor_stationary
        THEN [a EXCEPT !.idle_timer = IDLE_ANIMATION_DELAY]
        ELSE a

return_to_idle_1_t(s) ==
    LET r == reset_idle_sequence_t(s) IN
    IF IDLE_CLIPS[1] \in r.movies THEN set_animation_t(r, IDLE_CLIPS[1]) ELSE r

on_animation_finished_t(s, clip_name) ==
    IF clip_name = ENJOY
    THEN LET r == [s EXCEPT !.chrome_state = "watching"] IN
         IF WATCHING \in r.movies THEN set_animation_t(r, WATCHING) ELSE r
    ELSE IF clip_name = WATCHING
    THEN IF s.is_chrome_active /\ WATCHING \in s.movies
         THEN set_animation_t(s, WATCHING)
         ELSE return_to_idle_1_t([s EXCEPT !.chrome_state = "none"])
    ELSE IF clip_name \in {RUN2SLOW_L, RUN2SLOW_R}
    THEN return_to_idle_1_t(s)
    ELSE IF clip_name \in {CLICK_SINGLE, CLICK_DOUBLE}
    THEN return_to_idle_1_t(s)
    ELSE s

is_chrome_active_window_t(w, lookup_ok) ==
    IF w.hwnd = 0
    THEN FALSE
    ELSE IF lookup_ok THEN Lower(w.name) = "chrome.exe" ELSE FALSE

\* check_chrome_active that starts ENJOY without resetting the idle sequence
check_chrome_active_keeping_idle_t(s, chrome_active) ==
    IF chrome_active /\ ~s.is_chrome_active
    THEN LET r == [s EXCEPT !.is_chrome_active = TRUE, !.chrome_state = "enjoying"] IN
         IF r.cur_name \notin {ENJOY, WATCHING, CLICK_SINGLE, CLICK_DOUBLE} /\ ENJOY \in r.movies
         THEN set_animation_t(r, ENJOY)
         ELSE r
    ELSE IF ~chrome_active /\ s.is_chrome_active
    THEN LET r == [s EXCEPT !.is_chrome_active = FALSE, !.chrome_state = "none"] IN
         IF r.cur_name \in {ENJOY, WATCHING} THEN return_to_idle_1_t(r) ELSE r
    ELSE s

check_chrome_active_t(s, chrome_active) ==
    IF chrome_active /\ ~s.is_chrome_active
    THEN LET r == [s EXCEPT !.is_chrome_active = TRUE, !.chrome_state = "enjoying"] IN
         IF r.cur_name \notin {ENJOY, WATCHING, CLICK_SINGLE, CLICK_DOUBLE} /\ ENJOY \in r.movies
         THEN set_animation_t(reset_idle_sequence_t(r), ENJOY)
         ELSE r
    ELSE IF ~chrome_active /\ s.is_chrome_active
    THEN LET r == [s EXCEPT !.is_chrome_active = FALSE, !.chrome_state = "none"] IN
         IF r.cur_name \in {ENJOY, WATCHING} THEN return_to_idle_1_t(r) ELSE r
    ELSE s

start_running_idle_t(s) ==
    IF s.cur_name \in {RUN_LEFT, RUN_RIGHT}
    THEN LET idle_anim == IF s.current_direction = "right" THEN RUN_IDLE_R ELSE RUN_IDLE_L IN
         IF idle_anim \in s.movies
         THEN [set_animation_t(s, idle_anim) EXCEPT !.running_idle_age = <<0>>]
         ELSE s
    ELSE s

\* update_state, lines 395-412
cursor_moved_t(s, cursor_pos) ==
    cursor_pos[1] # s.last_cursor_pos[1] \/ cursor_pos[2] # s.last_cursor_pos[2]

stationary_check_t(s, cursor_pos) ==
    IF cursor_moved_t(s, cursor_pos)
    THEN LET m == [s EXCEPT !.last_cursor_move_age = 0, !.cursor_stationary = FALSE] IN
         IF m.cur_name \in IdleClipSet /\ m.chrome_state = "none"
         THEN reset_idle_sequence_t(m)
         ELSE m
    ELSE IF s.last_cursor_move_age > StationaryDelay /\ ~s.cursor_stationary
         THEN LET n == [s EXCEPT !.cursor_stationary = TRUE] IN
              IF n.chrome_state = "none" /\ n.cur_name = IDLE_CLIPS[1]
              THEN [n EXCEPT !.idle_timer = IDLE_ANIMATION_DELAY]
              ELSE n
         ELSE s

\* update_state, lines 429-448: the stickman lags behind the cursor
follow_cursor_t(s, cursor_x, elapsed_ms) ==
    LET distance_to_cursor == Abs(cursor_x - s.stickman_x) IN
    IF distance_to_cursor > LagDistance_t
    THEN LET step == (Min(distance_to_cursor, MaxMoveSpeed_t * 10) * elapsed_ms) \div 10000 IN
         IF cursor_x > s.stickman_x
         THEN [s EXCEPT !.stickman_x = @ + step, !.current_direction = "right"]
         ELSE [s EXCEPT !.stickman_x = @ - step, !.current_direction = "left"]
    ELSE s

\* update_state, lines 450-455
move_window_t(s) ==
    [s EXCEPT !.win_x = Max(0, Min(s.stickman_x - WindowWidth \div 2,
                                   ScreenWidth - WindowWidth))]

\* update_state, lines 457-485
choose_animation_t(s, speed, moved, distance_to_cursor) ==
    IF speed >= FAST_CURSOR_SPEED_t /\ moved
    THEN LET run_anim == IF s.current_direction = "right" THEN RUN_RIGHT ELSE RUN_LEFT IN
         IF run_anim \in s.movies /\ s.cur_name # run_anim
         THEN [set_animation_t(s, run_anim) EXCEPT !.running_idle_shots = Min(@ + 1, MaxPending)]
         ELSE s
    ELSE IF moved /\ distance_to_cursor > WalkDistance_t
    THEN IF distance_to_cursor > LagDistance_t
         THEN LET walk_anim == IF s.current_direction = "right"
                               THEN WALK_RIGHT ELSE WALK_LEFT IN
              IF walk_anim \in s.movies /\ s.cur_name \notin RUNNING_ANIMS
              THEN set_animation_t(s, walk_anim)
              ELSE s
         ELSE s
    ELSE IF ~moved \/ distance_to_cursor <= LagDistance_t
    THEN IF s.cur_name \in {RUN_LEFT, RUN_RIGHT, WALK_LEFT, WALK_RIGHT}
         THEN return_to_idle_1_t(s)
         ELSE IF s.cur_name \in {RUN_IDLE_L, RUN_IDLE_R}
         THEN IF s.running_idle_age # <<>> /\ s.running_idle_age[1] > RUN_IDLE_MAX_TIME * 1000
              THEN LET slow_anim == IF s.current_direction = "right"
                                    THEN RUN2SLOW_R ELSE RUN2SLOW_L
                       u == IF slow_anim \in s.movies THEN set_animation_t(s, slow_anim) ELSE s
                   IN  [u EXCEPT !.running_idle_age = <<>>]
              ELSE s
         ELSE s
    ELSE s

update_state_t(s, cursor_pos, restarted, pause) ==
    LET moved == cursor_moved_t(s, cursor_pos)
        a == stationary_check_t(s, cursor_pos)
    IN
    IF a.chrome_state \in {"enjoying", "watching"}
    THEN [a EXCEPT !.last_cursor_pos = cursor_pos, !.vel_elapsed = Max(@, pause)]
    ELSE IF a.cur_name \in {CLICK_SINGLE, CLICK_DOUBLE, ENJOY, WATCHING}
    THEN [a EXCEPT !.last_cursor_pos = cursor_pos, !.vel_elapsed = Max(@, pause)]
    ELSE
    LET dx == cursor_pos[1] - a.last_cursor_pos[1]
        elapsed_ms == Max(1, a.vel_elapsed)
        speed == cursor_speed(dx, elapsed_ms)
        distance_to_cursor == Abs(cursor_pos[1] - a.stickman_x)
        b == [a EXCEPT !.vel_elapsed = restarted]
        c == move_window_t(follow_cursor_t(b, cursor_pos[1], elapsed_ms))
        d == choose_animation_t(c, speed, moved, distance_to_cursor)
    IN  [d EXCEPT !.last_cursor_pos = cursor_pos]

----------------------------------------------------------------------------
(* The desktop *)

Pids == {1}
NoWindow == [hwnd |-> 0, pid |-> 0, name |-> "", access |-> TRUE]
Notepad == [hwnd |-> 1, pid |-> 1, name |-> "notepad.exe", access |-> TRUE]
\* access is FALSE when psutil.Process(pid) raises NoSuchProcess or AccessDenied
Windows == {NoWindow, Notepad}
               \cup {[hwnd |-> 1, pid |-> p, name |-> "Chrome.EXE", access |-> a] :
                        p \in Pids, a \in BOOLEAN}
BrowserInFront == foreground.hwnd # 0 /\ Lower(foreground.name) \in CHROME_NAMES

\* pyautogui.position(): the places the cursor is seen at
InitialCursor == <<500, 100>>
RestingCursor == {InitialCursor, <<500, 105>>}
CursorPositions == {InitialCursor, <<640, 100>>}
CursorPositions_t == {InitialCursor, <<560, 100>>, <<590, 100>>}

----------------------------------------------------------------------------
(* Construction: __init__ of either overlay, up to the event loop *)

Constructed(v, m, elapsed) ==
    LET fresh ==
            [movies |-> m, cur_name |-> None, current_movie |-> None, running |-> {},
             finished_connected |-> None,
             idle_sequence_index |-> 0, idle_1_play_count |-> 0,
             last_cursor_pos |-> InitialCursor, stickman_x |-> InitialCursor[1],
             win_x |-> 0, current_direction |-> "right",
             is_chrome_active |-> FALSE, chrome_state |-> "none",
             chrome_first_detected_time |-> None, chrome_fixed_position |-> <<>>,
             running_idle_age |-> <<>>, movement_locked |-> FALSE,
             cursor_stationary |-> FALSE, last_cursor_move_age |-> 0,
             cursor_speed_history |-> <<>>,
             last_click_age |-> double_click_threshold,
             last_processed_click_age |-> double_click_threshold,
             last_mouse_state |-> FALSE,
             anim_timer |-> TRUE, click_timer |-> (v = "core"), browser_timer |-> (v = "test"),
             idle_timer |-> 0, enjoy_timer |-> 0,
             click_timer_single |-> 0, click_timer_double |-> 0,
             running_idle_shots |-> 0, start_idle_shots |-> 0,
             vel_elapsed |-> elapsed]
    IN  IF v = "core" THEN set_animation(fresh, IDLE_CLIPS[1])
                      ELSE set_animation_t(fresh, IDLE_CLIPS[1])

\* The program `v` started with one of the asset directories `movie_sets`, on a
\* desktop whose cursor visits `places` and whose ticks are `elapsed` ms apart.
InitWith(v, movie_sets, places, elapsed) ==
    /\ variant = v
    /\ \E m \in movie_sets : self = Constructed(variant, m, elapsed)
    /\ monitor = [running |-> (variant = "core"), last_chrome_state |-> FALSE,
                  process_cache |-> <<>>]
    /\ signals = <<>>
    /\ foreground \in {NoWindow, Notepad}
    /\ cursors = places
    /\ tick_ms = elapsed
    /\ quiet = FALSE
    /\ played = <<>>

Env == <<foreground, cursors, tick_ms, quiet>>
Thread == <<monitor, signals>>

----------------------------------------------------------------------------
(* core.py: the UI thread's callbacks *)

UpdateState ==
    /\ variant = "core" /\ self.anim_timer
    /\ \E cursor_pos \in (IF quiet THEN {self.last_cursor_pos} ELSE cursors) :
          self' = update_state(self, cursor_pos, tick_ms, StalePause)
    /\ UNCHANGED <<variant, Thread, Env, played>>

DetectClick ==
    /\ variant = "core" /\ self.click_timer
    /\ \E current_mouse_state \in (IF quiet THEN {FALSE} ELSE BOOLEAN) :
          self' = detect_click(self, current_mouse_state)
    /\ UNCHANGED <<variant, Thread, Env, played>>

\* idle_timer.timeout.  A start_idle_sequence shot was scheduled before the timer was
\* started (return_to_idle stops the timer), so it runs first unless the timer is shorter.
IdleTimerTimeout ==
    /\ variant = "core" /\ self.idle_timer > 0
    /\ self.start_idle_shots = 0 \/ self.idle_timer <= StartIdleDelay
    /\ self' = play_next_idle([self EXCEPT !.idle_timer = 0])
    /\ UNCHANGED <<variant, Thread, Env, played>>

EnjoyTimerTimeout ==
    /\ variant = "core" /\ self.enjoy_timer > 0
    /\ self' = start_watching([self EXCEPT !.enjoy_timer = 0])
    /\ UNCHANGED <<variant, Thread, Env, played>>

ClickTimerSingleTimeout ==
    /\ variant = "core" /\ self.click_timer_single > 0
    /\ self' = force_stop_click_animation(
                   [self EXCEPT !.click_timer_single = 0], CLICK_SINGLE)
    /\ UNCHANGED <<variant, Thread, Env, played>>

ClickTimerDoubleTimeout ==
    /\ variant = "core" /\ self.click_timer_double > 0
    /\ self' = force_stop_click_animation(
                   [self EXCEPT !.click_timer_double = 0], CLICK_DOUBLE)
    /\ UNCHANGED <<variant, Thread, Env, played>>

RunningIdleShot ==
    /\ variant = "core" /\ self.running_idle_shots > 0
    /\ self' = start_running_idle([self EXCEPT !.running_idle_shots = @ - 1])
    /\ UNCHANGED <<variant, Thread, Env, played>>

StartIdleShot ==
    /\ variant = "core" /\ self.start_idle_shots > 0
    /\ self' = start_idle_sequence([self EXCEPT !.start_idle_shots = @ - 1])
    /\ UNCHANGED <<variant, Thread, Env, played>>

\* QMovie.finished of the clip it is connected for: the movie reaches its last frame,
\* stops, and on_animation_finished runs.
MovieFinished ==
    /\ variant = "core"
    /\ self.finished_connected # None /\ self.finished_connected \in self.running
    /\ self' = on_animation_finished(
                   [self EXCEPT !.running = @ \ {self.finished_connected}],
                   self.finished_connected)
    /\ UNCHANGED <<variant, Thread, Env, played>>

ChromeStatusChanged ==
    /\ variant = "core" /\ signals # <<>>
    /\ self' = on_chrome_status_changed(self, Head(signals))
    /\ signals' = Tail(signals)
    /\ UNCHANGED <<variant, monitor, Env, played>>

\* run with the handler called from the polling thread instead of a signal emitted
MonitorRun_calling_handler ==
    /\ variant = "core" /\ monitor.running
    /\ LET polled == is_chrome_active_window(monitor.process_cache, foreground,
                                             foreground.access)
           current_chrome_state == polled[1]
       IN  /\ monitor' = [monitor EXCEPT !.process_cache = polled[2],
                                         !.last_chrome_state = current_chrome_state]
           /\ self' = IF current_chrome_state # monitor.last_chrome_state
                      THEN on_chrome_status_changed(self, current_chrome_state)
                      ELSE self
    /\ UNCHANGED <<variant, signals, Env, played>>

\* run emitting after every poll, changed or not
MonitorRun_emitting_every_poll ==
    /\ variant = "core" /\ monitor.running
    /\ LET polled == is_chrome_active_window(monitor.process_cache, foreground,
                                             foreground.access)
           current_chrome_state == polled[1]
       IN  /\ monitor' = [monitor EXCEPT !.process_cache = polled[2],
                                         !.last_chrome_state = current_chrome_state]
           /\ Len(signals) < MaxSignals /\ signals' = Append(signals, current_chrome_state)
    /\ UNCHANGED <<variant, self, Env, played>>

\* SystemMonitorThread.run: one turn of the loop
MonitorRun ==
    /\ variant = "core" /\ monitor.running
    /\ LET polled == is_chrome_active_window(monitor.process_cache, foreground,
                                             foreground.access)
           current_chrome_state == polled[1]
       IN  /\ monitor' = [monitor EXCEPT !.process_cache = polled[2],
                                         !.last_chrome_state = current_chrome_state]
           /\ IF current_chrome_state # monitor.last_chrome_state
              THEN Len(signals) < MaxSignals /\ signals' = Append(signals, current_chrome_state)
              ELSE signals' = signals
    /\ UNCHANGED <<variant, self, Env, played>>

----------------------------------------------------------------------------
(* test.py: the UI thread's callbacks *)

\* What `played` holds after a step that is not an idle-timer expiry: it starts
\* again whenever the step leaves the idle sequence reset.
played_after(s) ==
    IF s.idle_sequence_index = 0 /\ s.idle_1_play_count = 0 THEN <<>> ELSE played

UpdateState_t ==
    /\ variant = "test" /\ self.anim_timer
    /\ \E cursor_pos \in (IF quiet THEN {self.last_cursor_pos} ELSE cursors) :
          self' = update_state_t(self, cursor_pos, tick_ms, StalePause)
    /\ played' = played_after(self')
    /\ UNCHANGED <<variant, Thread, Env>>

CheckChromeActive_t ==
    /\ variant = "test" /\ self.browser_timer
    /\ self' = check_chrome_active_t(self,
                   is_chrome_active_window_t(foreground, foreground.access))
    /\ played' = played_after(self')
    /\ UNCHANGED <<variant, Thread, Env>>

IdleTimerTimeout_t ==
    /\ variant = "test" /\ self.idle_timer > 0
    /\ self' = play_next_idle_t([self EXCEPT !.idle_timer = 0])
    /\ played' = IF Len(played) < MaxPlayed THEN Append(played, self'.cur_name) ELSE played
    /\ UNCHANGED <<variant, Thread, Env>>

RunningIdleShot_t ==
    /\ variant = "test" /\ self.running_idle_shots > 0
    /\ self' = start_running_idle_t([self EXCEPT !.running_idle_shots = @ - 1])
    /\ played' = played_after(self')
    /\ UNCHANGED <<variant, Thread, Env>>

MovieFinished_t ==
    /\ variant = "test"
    /\ self.finished_connected # None /\ self.finished_connected \in self.running
    /\ self' = on_animation_finished_t(
                   [self EXCEPT !.running = @ \ {self.finished_connected}],
                   self.finished_connected)
    /\ played' = played_after(self')
    /\ UNCHANGED <<variant, Thread, Env>>

----------------------------------------------------------------------------
(* The environment: the desktop and the clock *)

\* Another window comes to the front, or none.
ForegroundChanges ==
    /\ ~quiet
    /\ \E w \in Windows : w # foreground /\ foreground' = w
    /\ UNCHANGED <<variant, self, Thread, cursors, tick_ms, quiet, played>>

\* From now on the cursor rests, no button is pressed and no browser comes to the front.
UserLeaves ==
    /\ ~quiet /\ ~BrowserInFront
    /\ quiet' = TRUE
    /\ UNCHANGED <<variant, self, Thread, foreground, cursors, tick_ms, played>>

\* time.time() moves on: the age of a time stamp passes the next value the code
\* compares it with.
cursor_rested(s) ==
    [s EXCEPT !.last_cursor_move_age = StationaryDelay + 1]
click_aged(s) ==
    LET next(a) == IF a < click_debounce_time THEN click_debounce_time
                   ELSE double_click_threshold
    IN  [s EXCEPT !.last_click_age = next(@), !.last_processed_click_age = next(@)]
running_idle_aged(s) ==
    [s EXCEPT !.running_idle_age = <<RUN_IDLE_MAX_TIME * 1000 + 1>>]

CursorRests ==
    /\ self.last_cursor_move_age <= StationaryDelay
    /\ self' = cursor_rested(self)
    /\ UNCHANGED <<variant, Thread, Env, played>>

ClickAges ==
    /\ variant = "core" /\ self.last_click_age < double_click_threshold
    /\ self' = click_aged(self)
    /\ UNCHANGED <<variant, Thread, Env, played>>

RunningIdleAges ==
    /\ self.running_idle_age # <<>> /\ self.running_idle_age[1] <= RUN_IDLE_MAX_TIME * 1000
    /\ self' = running_idle_aged(self)
    /\ UNCHANGED <<variant, Thread, Env, played>>

----------------------------------------------------------------------------
(* Exit: the Escape shortcut and the close event, in either variant *)

\* cleanup of core.py that leaves the two click-clip timers out of the list
cleanup_keeping_click_timers(s) ==
    [s EXCEPT !.anim_timer = FALSE, !.idle_timer = 0, !.enjoy_timer = 0,
              !.click_timer = FALSE, !.running = {}]

\* core.py cleanup, the overlay's part: every timer of the list stopped, the current
\* movie and every movie of `movies` stopped
cleanup(s) ==
    [s EXCEPT !.anim_timer = FALSE, !.idle_timer = 0, !.enjoy_timer = 0,
              !.click_timer = FALSE, !.click_timer_single = 0, !.click_timer_double = 0,
              !.running = {}]

\* SystemMonitorThread.stop: running = False, quit(), wait()
stop(m) == [m EXCEPT !.running = FALSE]

cleanup_t(s) ==
    [s EXCEPT !.anim_timer = FALSE, !.browser_timer = FALSE, !.idle_timer = 0,
              !.running = {}]

\* QApplication.quit(): app.exec_() returns, so single shots still pending never run
quit(s) == [s EXCEPT !.running_idle_shots = 0, !.start_idle_shots = 0]

\* exit_shortcut.activated -> safe_exit.  Signals still queued are never delivered.
SafeExit ==
    /\ variant = "core" /\ self.anim_timer
    /\ self' = quit(cleanup(self))
    /\ monitor' = stop(monitor)
    /\ signals' = <<>>
    /\ UNCHANGED <<variant, Env, played>>

SafeExit_t ==
    /\ variant = "test" /\ self.anim_timer
    /\ self' = quit(cleanup_t(self))
    /\ UNCHANGED <<variant, Thread, Env, played>>

----------------------------------------------------------------------------
(* Callbacks in which a call raises: what their except clauses leave behind *)

\* update_state with the handler of __init__ in place of its own: the error is
\* printed and cleanup is called
update_state_raising_stopping(s, cursor_pos, restarted, pause) ==
    cleanup(s)

\* core.py update_state when pyautogui.size() raises (line 580): a tick that returns
\* before that line is not affected; otherwise the cursor check, the speed sample and
\* the stickman's move are done, the window, the clip and last_cursor_pos are not.
update_state_raising(s, cursor_pos, restarted, pause) ==
    LET dx == cursor_pos[1] - s.last_cursor_pos[1]
        moved == cursor_moved(s, cursor_pos)
        a == stationary_check(s, cursor_pos)
    IN
    IF \/ a.chrome_state \in {"enjoying", "watching"} /\ a.chrome_fixed_position # <<>>
       \/ a.cur_name \in {CLICK_SINGLE, CLICK_DOUBLE, ENJOY, WATCHING}
       \/ a.movement_locked
    THEN update_state(s, cursor_pos, restarted, pause)
    ELSE LET elapsed_ms == Max(1, a.vel_elapsed)
             h == speed_history(a, moved, dx, elapsed_ms)
             b == [a EXCEPT !.vel_elapsed = restarted, !.cursor_speed_history = h]
         IN  follow_cursor(b, cursor_pos[1], elapsed_ms)

\* test.py update_state when pyautogui.size() raises (line 452)
update_state_raising_t(s, cursor_pos, restarted, pause) ==
    LET a == stationary_check_t(s, cursor_pos) IN
    IF \/ a.chrome_state \in {"enjoying", "watching"}
       \/ a.cur_name \in {CLICK_SINGLE, CLICK_DOUBLE, ENJOY, WATCHING}
    THEN update_state_t(s, cursor_pos, restarted, pause)
    ELSE follow_cursor_t([a EXCEPT !.vel_elapsed = restarted], cursor_pos[1],
                         Max(1, a.vel_elapsed))

\* set_animation, the last call of a callback that took `before` to `after`, when it
\* raises after stopping and disconnecting the current movie (core.py 461-471,
\* test.py 262-274): the new clip is neither recorded nor started.
set_animation_raising(before, after) ==
    IF after.cur_name = before.cur_name
    THEN after
    ELSE [after EXCEPT !.cur_name = before.cur_name,
                       !.current_movie = before.current_movie,
                       !.running = before.running \ {before.current_movie},
                       !.finished_connected = None]

\* is_chrome_active_window when a win32 call raises (core.py 167-168, test.py 348-349)
is_chrome_active_window_raising == FALSE

UpdateStateRaises ==
    /\ variant = "core" /\ self.anim_timer
    /\ \E cursor_pos \in (IF quiet THEN {self.last_cursor_pos} ELSE cursors) :
          self' = update_state_raising(self, cursor_pos, tick_ms, StalePause)
    /\ UNCHANGED <<variant, Thread, Env, played>>

UpdateStateRaises_t ==
    /\ variant = "test" /\ self.anim_timer
    /\ \E cursor_pos \in (IF quiet THEN {self.last_cursor_pos} ELSE cursors) :
          self' = update_state_raising_t(self, cursor_pos, tick_ms, StalePause)
    /\ played' = played_after(self')
    /\ UNCHANGED <<variant, Thread, Env>>

MovieFinishedRaises ==
    /\ variant = "core"
    /\ self.finished_connected # None /\ self.finished_connected \in self.running
    /\ LET before == [self EXCEPT !.running = @ \ {self.finished_connected}] IN
       self' = set_animation_raising(
                   before, on_animation_finished(before, self.finished_connected))
    /\ UNCHANGED <<variant, Thread, Env, played>>

MovieFinishedRaises_t ==
    /\ variant = "test"
    /\ self.finished_connected # None /\ self.finished_connected \in self.running
    /\ LET before == [self EXCEPT !.running = @ \ {self.finished_connected}] IN
       self' = set_animation_raising(
                   before, on_animation_finished_t(before, self.finished_connected))
    /\ played' = played_after(self')
    /\ UNCHANGED <<variant, Thread, Env>>

\* SystemMonitorThread.run: one turn of the loop in which the poll raises
MonitorRunRaises ==
    /\ variant = "core" /\ monitor.running
    /\ LET current_chrome_state == is_chrome_active_window_raising IN
       /\ monitor' = [monitor EXCEPT !.last_chrome_state = current_chrome_state]
       /\ IF current_chrome_state # monitor.last_chrome_state
          THEN Len(signals) < MaxSignals /\ signals' = Append(signals, current_chrome_state)
          ELSE signals' = signals
    /\ UNCHANGED <<variant, self, Env, played>>

CheckChromeActiveRaises_t ==
    /\ variant = "test" /\ self.browser_timer
    /\ LET after == check_chrome_active_t(self, is_chrome_active_window_raising) IN
       self' = set_animation_raising(self, after)
    /\ played' = played_after(self')
    /\ UNCHANGED <<variant, Thread, Env>>

----------------------------------------------------------------------------
(* Specifications: the program on a desktop where the user does one kind of thing *)

\* The cursor rests or trembles in place; some idle clip may be missing.
InitIdle ==
    \E v \in {"core", "test"} :
        InitWith(v, {AllClips, AllClips \ {IDLE_CLIP_1}, AllClips \ {IDLE_CLIP_3}},
                 RestingCursor, TickElapsed)
NextIdle ==
    \/ UpdateState \/ IdleTimerTimeout
    \/ UpdateState_t \/ IdleTimerTimeout_t
    \/ CursorRests
SpecIdle == InitIdle /\ [][NextIdle]_vars

\* core.py: the user clicks; the double-tap clip may be missing.
InitClick ==
    InitWith("core", {AllClips, AllClips \ {CLICK_DOUBLE}}, RestingCursor, TickElapsed)
NextClick ==
    \/ UpdateState \/ DetectClick \/ IdleTimerTimeout
    \/ ClickTimerSingleTimeout \/ ClickTimerDoubleTimeout
    \/ CursorRests \/ ClickAges
SpecClick == InitClick /\ [][NextClick]_vars

\* The cursor is moved about and the stickman follows; all clips are loaded.
InitFollow ==
    \/ InitWith("core", {AllClips}, CursorPositions, TickElapsed)
    \/ InitWith("test", {AllClips}, CursorPositions_t, TickElapsed)
NextFollow ==
    \/ UpdateState \/ IdleTimerTimeout \/ RunningIdleShot \/ StartIdleShot \/ MovieFinished
    \/ UpdateState_t \/ IdleTimerTimeout_t \/ RunningIdleShot_t \/ MovieFinished_t
    \/ CursorRests \/ RunningIdleAges
SpecFollow == InitFollow /\ [][NextFollow]_vars

\* The same with windows coming to the front; core.py runs on a busy desktop.
InitBrowse ==
    \/ InitWith("core", {AllClips}, CursorPositions, TickLate)
    \/ InitWith("test", {AllClips}, CursorPositions_t, TickElapsed)
NextBrowse ==
    \/ NextFollow
    \/ MonitorRun \/ ChromeStatusChanged \/ EnjoyTimerTimeout
    \/ CheckChromeActive_t
    \/ ForegroundChanges
SpecBrowse == InitBrowse /\ [][NextBrowse]_vars

----------------------------------------------------------------------------
(* Claims *)

\* C1: in every state after construction exactly one animation is active: cur_name
\* names a loaded clip, current_movie is that clip's movie, and no other movie runs.
C1_OneAnimationActive ==
    /\ self.cur_name \in self.movies
    /\ self.current_movie = self.cur_name
    /\ self.running \subseteq {self.cur_name}

\* The program next to a browser: the cursor rests, windows come and go, and every
\* timer, queued signal, movie end and turn of the polling loop eventually happens.
InitWatch ==
    \E v \in {"core", "test"} : InitWith(v, {AllClips}, {InitialCursor}, TickElapsed)
NextWatch ==
    \/ UpdateState \/ IdleTimerTimeout \/ EnjoyTimerTimeout \/ MovieFinished
    \/ MonitorRun \/ ChromeStatusChanged
    \/ UpdateState_t \/ IdleTimerTimeout_t \/ CheckChromeActive_t \/ MovieFinished_t
    \/ CursorRests \/ ForegroundChanges
FairWatch ==
    /\ WF_vars(UpdateState) /\ WF_vars(IdleTimerTimeout) /\ WF_vars(EnjoyTimerTimeout)
    /\ WF_vars(MovieFinished) /\ WF_vars(MonitorRun) /\ WF_vars(ChromeStatusChanged)
    /\ WF_vars(UpdateState_t) /\ WF_vars(IdleTimerTimeout_t)
    /\ WF_vars(CheckChromeActive_t) /\ WF_vars(MovieFinished_t)
    /\ WF_vars(CursorRests)
SpecWatch == InitWatch /\ [][NextWatch]_vars /\ FairWatch

\* A browser owns the foreground window and its process can be looked up.
BrowserSeen == BrowserInFront /\ foreground.access

\* C2: when a browser comes to the front while the overlay considers none active, ENJOY
\* is started; if the browser stays in front, WATCHING becomes the current clip and
\* stays the current clip.
C2_BrowserEnjoyThenWatching ==
    /\ [](BrowserSeen /\ ~self.is_chrome_active
            => <>(self.cur_name \in {ENJOY, WATCHING} \/ ~BrowserSeen))
    /\ (<>[]BrowserSeen => <>[](self.cur_name = WATCHING))

\* core.py: the user clicks for a while and then leaves the desk; every timer that is
\* running eventually fires and time goes on.
InitRest == InitWith("core", {AllClips}, RestingCursor, TickElapsed)
NextRest == NextClick \/ UserLeaves
FairRest ==
    /\ WF_vars(UpdateState) /\ WF_vars(DetectClick) /\ WF_vars(IdleTimerTimeout)
    /\ WF_vars(ClickTimerSingleTimeout) /\ WF_vars(ClickTimerDoubleTimeout)
    /\ WF_vars(CursorRests) /\ WF_vars(ClickAges)
SpecRest == InitRest /\ [][NextRest]_vars /\ FairRest

\* C3: once the cursor never moves again, no click occurs and no browser is in front,
\* the idle sequence eventually advances past idle_animation_1, whatever clip was
\* playing when the stationary period began.
C3_IdleSequenceAdvances ==
    [](quiet => <>(self.cur_name \in IdleClipSet \ {IDLE_CLIP_1}))

\* The place of an idle clip in IDLE_CLIPS
IdlePlace(clip) == CHOOSE i \in 1..Len(IDLE_CLIPS) : IDLE_CLIPS[i] = clip
\* What an idle-timer expiry of core.py does to the current clip when the sequence is
\* played in list order: the next clip of the list, the last one staying.
InListOrder ==
    /\ self.cur_name \in IdleClipSet
    /\ self'.cur_name = IDLE_CLIPS[Min(IdlePlace(self.cur_name) + 1, Len(IDLE_CLIPS))]
\* The sequence starts (the idle timer gets armed) on the first clip of the list.
StartsAtFirst ==
    self.idle_timer = 0 /\ self'.idle_timer > 0 => self'.cur_name = IDLE_CLIPS[1]

ExpectedIdle(k) == IF k <= 2 THEN IDLE_CLIPS[1] ELSE IDLE_CLIPS[Min(k - 1, Len(IDLE_CLIPS))]
PlayedAsExpected == \A k \in 1..Len(played) : played[k] = ExpectedIdle(k)

\* C5 as stated: in test.py, from a reset idle sequence and with the cursor stationary,
\* successive idle-timer expiries ask for idle_1, idle_1, idle_2, idle_3, idle_4, idle_5
\* and then idle_5 on every later expiry.
C5_IdleExpiries == variant = "test" => PlayedAsExpected

\* C5 amended: the same when all five idle clips are loaded.
C5_IdleExpiriesWhenLoaded ==
    variant = "test" /\ IdleClipSet \subseteq self.movies => PlayedAsExpected

\* Every recorded expiry has happened: idle_5 has been asked for again and again.
C5_Witness ==
    /\ variant = "test" /\ IdleClipSet \subseteq self.movies
    /\ Len(played) = MaxPlayed /\ self.cursor_stationary /\ self.idle_timer > 0

\* A step of detect_click that sees a press edge and accepts it: not debounced, not
\* locked, no browser mode, current clip not ENJOY / WATCHING / RUN2SLOW.
AcceptedClick ==
    /\ DetectClick
    /\ self.last_processed_click_age >= click_debounce_time
    /\ self'.last_mouse_state /\ ~self.last_mouse_state
    /\ ~self.movement_locked /\ self.chrome_state = "none"
    /\ self.cur_name \notin {ENJOY, WATCHING, RUN2SLOW_L, RUN2SLOW_R}
\* What the claim says an accepted click does
ClickStartsClip ==
    /\ self'.idle_sequence_index = 0 /\ self'.idle_timer = 0
    /\ IF self.last_click_age < double_click_threshold
       THEN self'.cur_name = CLICK_DOUBLE /\ self'.click_timer_double = CLICK_DOUBLE_DURATION
       ELSE self'.cur_name = CLICK_SINGLE /\ self'.click_timer_single = CLICK_SINGLE_DURATION

\* C6 as stated: in core.py an accepted press edge starts CLICK_DOUBLE iff it comes less
\* than double_click_threshold after the previous accepted click and CLICK_SINGLE
\* otherwise; the idle sequence is reset and the matching click timer is armed.
C6_ClickKind == [][AcceptedClick => ClickStartsClip]_vars

\* C6 amended: the same when both click clips are loaded.
C6_ClickKindWhenLoaded ==
    [][AcceptedClick /\ ClickClips \subseteq self.movies => ClickStartsClip]_vars

\* A double click has been accepted and the double-tap clip plays with its timer armed.
C6_Witness ==
    /\ variant = "core" /\ ClickClips \subseteq self.movies
    /\ self.cur_name = CLICK_DOUBLE /\ self.click_timer_double = CLICK_DOUBLE_DURATION
    /\ self.last_click_age = 0 /\ self.last_mouse_state

\* An update_state tick that gets as far as measuring the cursor speed (it does not
\* leave early for browser mode, a special clip or the movement lock).
MeasuringTick ==
    \/ /\ UpdateState
       /\ LET a == stationary_check(self, self'.last_cursor_pos) IN
          /\ a.chrome_state = "none"
          /\ a.cur_name \notin {CLICK_SINGLE, CLICK_DOUBLE, ENJOY, WATCHING}
          /\ ~a.movement_locked
    \/ /\ UpdateState_t
       /\ self.chrome_state = "none"
       /\ self.cur_name \notin {CLICK_SINGLE, CLICK_DOUBLE, ENJOY, WATCHING}
\* The cursor moved between the last tick and this one, as the variant sees it.
TickMoved ==
    IF variant = "core" THEN cursor_moved(self, self'.last_cursor_pos)
                        ELSE cursor_moved_t(self, self'.last_cursor_pos)
\* The cursor speed the tick measures and uses (px/s): the 5-sample average in
\* core.py, the speed since the last tick in test.py.
TickSpeed ==
    LET dx == self'.last_cursor_pos[1] - self.last_cursor_pos[1]
        elapsed_ms == Max(1, self.vel_elapsed)
    IN  IF variant = "core"
        THEN avg_cursor_speed(speed_history(self, TickMoved, dx, elapsed_ms), TickMoved)
        ELSE cursor_speed(dx, elapsed_ms)

\* C7: on a tick whose measured cursor speed is below WALK_VEL no walk or run clip is
\* started and no walk or run clip is current afterwards: an idle pose is selected
\* (the running-idle and slowing clips are counted as idle poses here).
C7_SlowCursorSelectsIdle ==
    [][MeasuringTick /\ TickSpeed < WALK_VEL =>
          self'.cur_name \notin WalkClips \cup RunClips]_vars

\* One update_state tick of either variant
Tick == UpdateState \/ UpdateState_t
\* The tick's distance between cursor and stickman, its speed threshold for running
\* and its walk distance
TickDistance == Abs(self'.last_cursor_pos[1] - self.stickman_x)
FastSpeed == IF variant = "core" THEN FAST_CURSOR_SPEED ELSE FAST_CURSOR_SPEED_t
WalkDistance == IF variant = "core" THEN FollowDistance ELSE WalkDistance_t
\* A tick starts a run clip only if the cursor moved at running speed (in core.py: also
\* more than 100 px away and not locked).
RunOnlyWhenFast ==
    self'.cur_name \in RunClips /\ self'.cur_name # self.cur_name /\ Tick =>
        /\ TickMoved /\ TickSpeed >= FastSpeed
        /\ variant = "core" => TickDistance > RunDistance /\ ~self.movement_locked
\* The tick on which the claim wants a walk clip: it reaches the animation logic, the
\* cursor moved at less than running speed and the stickman is beyond the walk distance.
SlowMoveFarAway ==
    TickMoved /\ TickSpeed < FastSpeed /\ TickDistance > WalkDistance /\ MeasuringTick

C9_ReactsToMovement ==
    [][/\ Tick /\ self.movies = AllClips
       /\ self.chrome_state = "none" /\ self.cur_name \notin ClickClips \cup SlowClips
       /\ TickMoved /\ TickDistance > WalkDistance
       => self'.cur_name \in WalkClips \cup RUNNING_ANIMS]_vars

\* C10 (its safety half): once the cursor has stopped, with no browser in front and all
\* clips loaded, no tick takes the stickman farther from the cursor or past it.
C10_NeverPassesCursor ==
    [][/\ Tick /\ ~TickMoved /\ self.movies = AllClips
       /\ ~BrowserInFront /\ self.chrome_state = "none" /\ ~self.is_chrome_active
       => LET cursor_x == self'.last_cursor_pos[1] IN
          /\ Abs(cursor_x - self'.stickman_x) <= Abs(cursor_x - self.stickman_x)
          /\ (cursor_x - self.stickman_x) * (cursor_x - self'.stickman_x) >= 0]_vars

\* The program next to a browser, with a user who clicks and may press Escape; all
\* clips are loaded.
InitDesk ==
    \E v \in {"core", "test"} : InitWith(v, {AllClips}, RestingCursor, TickElapsed)
NextDesk ==
    \/ UpdateState \/ IdleTimerTimeout \/ EnjoyTimerTimeout \/ MovieFinished
    \/ DetectClick \/ ClickTimerSingleTimeout \/ ClickTimerDoubleTimeout
    \/ MonitorRun \/ ChromeStatusChanged \/ SafeExit
    \/ UpdateState_t \/ IdleTimerTimeout_t \/ CheckChromeActive_t \/ MovieFinished_t
    \/ SafeExit_t
    \/ CursorRests \/ ClickAges \/ ForegroundChanges
SpecDesk == InitDesk /\ [][NextDesk]_vars

\* A step of the polling thread: it polls (last_chrome_state or _process_cache
\* changes) or it emits (one more signal is queued).
ThreadStep ==
    \/ monitor'.last_chrome_state # monitor.last_chrome_state
    \/ monitor'.process_cache # monitor.process_cache
    \/ Len(signals') > Len(signals)

\* C11: a step of the polling thread leaves every field of the overlay as it is and
\* at most appends one boolean to the queue of emitted signals; the overlay changes
\* only in steps that are not the thread's.
C11_ThreadOnlySignals ==
    [][ThreadStep =>
          /\ self' = self
          /\ signals' = signals \/ \E b \in BOOLEAN : signals' = Append(signals, b)]_vars

\* The thread has polled a browser and emitted; the overlay has not handled it yet.
C11_Witness ==
    /\ variant = "core" /\ monitor.last_chrome_state /\ signals = <<TRUE>>
    /\ ~self.is_chrome_active /\ self.chrome_state = "none"

\* The program next to a browser, on a machine where calls into the window system
\* and the movie player may raise.
InitFaults ==
    \E v \in {"core", "test"} : InitWith(v, {AllClips}, RestingCursor, TickElapsed)
NextFaults ==
    \/ NextWatch
    \/ UpdateStateRaises \/ MovieFinishedRaises \/ MonitorRunRaises
    \/ UpdateStateRaises_t \/ MovieFinishedRaises_t \/ CheckChromeActiveRaises_t
SpecFaults == InitFaults /\ [][NextFaults]_vars

\* A callback, or a turn of the polling loop, in which a call raises
Raises ==
    \/ UpdateStateRaises \/ MovieFinishedRaises \/ MonitorRunRaises
    \/ UpdateStateRaises_t \/ MovieFinishedRaises_t \/ CheckChromeActiveRaises_t

AllStopped ==
    /\ ~self.anim_timer /\ self.idle_timer = 0 /\ self.running = {}
    /\ variant = "core" =>
          /\ self.enjoy_timer = 0 /\ ~self.click_timer
          /\ self.click_timer_single = 0 /\ self.click_timer_double = 0
          /\ ~monitor.running
    /\ variant = "test" => ~self.browser_timer

\* C13: right after safe_exit has run no timer of the overlay is active, no movie is
\* running, and in core.py the polling loop has ended.
C13_ExitStopsEverything ==
    [][SafeExit \/ SafeExit_t => AllStopped']_vars

\* core.py has exited while the single-tap clip was playing (its timer was armed).
C13_Witness ==
    /\ variant = "core" /\ ~self.anim_timer /\ ~monitor.running
    /\ self.cur_name = CLICK_SINGLE /\ self.running = {}

\* C14: every poll returns TRUE exactly if there is a foreground window whose process
\* can be looked up and now has a browser's name: the value the polling loop of
\* core.py records, and the value check_chrome_active of test.py acts on.
C14_DetectionExact ==
    [][/\ MonitorRun => monitor'.last_chrome_state = BrowserSeen
       /\ CheckChromeActive_t => self'.is_chrome_active = BrowserSeen]_vars

\* C15: in core.py movement_locked is set only while a slowing clip is the current
\* clip.
C15_LockedOnlyWhileSlowing ==
    variant = "core" /\ self.movement_locked => self.cur_name \in SlowClips

\* C16: chrome_state is "none", "enjoying" or "watching", and it is "none" whenever
\* is_chrome_active is FALSE.
C16_BrowserModeOnlyWhileActive ==
    /\ self.chrome_state \in {"none", "enjoying", "watching"}
    /\ self.chrome_state # "none" => self.is_chrome_active

\* The program next to a browser, started in an asset directory from which one clip
\* may be missing.
InitShelf ==
    \E v \in {"core", "test"} :
        InitWith(v, {AllClips, AllClips \ {IDLE_CLIP_1}, AllClips \ {ENJOY},
                     AllClips \ {WATCHING}},
                 RestingCursor, TickElapsed)
NextShelf == NextWatch
SpecShelf == InitShelf /\ [][NextShelf]_vars

\* In browser mode the clip of the mode is the current clip.
BrowserClipShown ==
    /\ self.chrome_state = "enjoying" => self.cur_name = ENJOY
    /\ self.chrome_state = "watching" => self.cur_name = WATCHING

\* C17 as stated: with ENJOY and WATCHING loaded, browser mode shows only browser clips.
C17_BrowserClips ==
    {ENJOY, WATCHING} \subseteq self.movies => BrowserClipShown

\* C17 amended: the same with the first idle clip loaded as well.
C17_BrowserClipsWhenIdleLoaded ==
    {ENJOY, WATCHING, IDLE_CLIP_1} \subseteq self.movies => BrowserClipShown

\* The browser has been in front long enough for WATCHING to play, all clips loaded.
C17_Witness ==
    /\ self.movies = AllClips /\ self.is_chrome_active
    /\ self.chrome_state = "watching" /\ self.cur_name = WATCHING

\* An update_state tick taken in browser mode
BrowserModeTick == self.chrome_state \in {"enjoying", "watching"} /\ Tick

\* C18: a tick in browser mode leaves the clip, the stickman's x, the direction and
\* movement_locked as they are and records the cursor position it read; in core.py the
\* window is at chrome_fixed_position afterwards.
C18_BrowserModeTickFrame ==
    [][BrowserModeTick =>
          /\ self'.cur_name = self.cur_name
          /\ self'.stickman_x = self.stickman_x
          /\ self'.current_direction = self.current_direction
          /\ self'.movement_locked = self.movement_locked
          /\ self'.last_cursor_pos \in cursors
          /\ variant = "core" /\ self.is_chrome_active =>
                /\ self.chrome_fixed_position # <<>>
                /\ self'.win_x = self.chrome_fixed_position[1]]_vars

\* A desktop whose watching clip failed to load, with the cursor moving and windows
\* coming to the front.
InitStray ==
    \/ InitWith("core", {AllClips \ {WATCHING}}, CursorPositions, TickLate)
    \/ InitWith("test", {AllClips \ {WATCHING}}, CursorPositions_t, TickElapsed)
NextStray ==
    \/ UpdateState \/ MovieFinished \/ MonitorRun \/ ChromeStatusChanged \/ EnjoyTimerTimeout
    \/ UpdateState_t \/ MovieFinished_t \/ CheckChromeActive_t
    \/ ForegroundChanges
SpecStray == InitStray /\ [][NextStray]_vars

\* The browser-closed handler runs while a browser clip is current: core.py handles
\* an inactive report, test.py polls an inactive foreground while is_chrome_active.
BrowserClosedHandled ==
    /\ self.cur_name \in {ENJOY, WATCHING}
    /\ \/ ChromeStatusChanged /\ ~Head(signals)
       \/ /\ self.is_chrome_active
          /\ ~is_chrome_active_window_t(foreground, foreground.access)
          /\ CheckChromeActive_t

\* What the handler leaves behind, the clip aside
BrowserModeLeft ==
    /\ ~self.is_chrome_active /\ self.chrome_state = "none"
    /\ variant = "core" =>
          self.chrome_fixed_position = <<>> /\ self.chrome_first_detected_time = None
    /\ self.idle_sequence_index = 0 /\ self.idle_timer = 0

\* C19: when the browser leaves the foreground while ENJOY or WATCHING is current, the
\* handler leaves browser mode, resets the idle sequence and makes idle_animation_1 the
\* current clip.
C19_BrowserClosed ==
    [][BrowserClosedHandled => BrowserModeLeft' /\ self'.cur_name = IDLE_CLIP_1]_vars

\* C19 as amended: idle_animation_1 becomes the current clip when it is loaded; when it
\* is missing the browser clip stays current.
C19_BrowserClosedWhenIdleLoaded ==
    [][BrowserClosedHandled =>
          /\ BrowserModeLeft'
          /\ self'.cur_name = IF IDLE_CLIP_1 \in self.movies THEN IDLE_CLIP_1
                              ELSE self.cur_name]_vars

\* core.py just after the browser left during ENJOY: idle_animation_1 is back while the
\* enjoy timer armed at detection is still pending.
C19_Witness ==
    /\ variant = "core" /\ ~self.is_chrome_active /\ self.chrome_state = "none"
    /\ self.chrome_fixed_position = <<>> /\ signals = <<>>
    /\ self.cur_name = IDLE_CLIP_1 /\ self.enjoy_timer > 0

\* The WATCHING movie emits finished while the browser is still active
WatchingFinishedWhileActive ==
    /\ self.finished_connected = WATCHING /\ self.is_chrome_active
    /\ \/ self.chrome_state = "watching" /\ MovieFinished
       \/ MovieFinished_t

\* C20: when the WATCHING movie emits finished while the browser is still active (and,
\* in core.py, chrome_state is "watching"), the callback starts it again: a WATCHING
\* clip is running afterwards.
C20_WatchingKeepsLooping ==
    [][WatchingFinishedWhileActive =>
          self'.cur_name = WATCHING /\ WATCHING \in self'.running]_vars

\* What on_chrome_status_changed has been told so far, followed by the emissions it has
\* not handled yet, oldest first
StatusChain == <<self.is_chrome_active>> \o signals

\* Neighbouring values differ
Alternating(q) == \A i \in 1..(Len(q) - 1) : q[i] # q[i + 1]

\* While the thread runs, the handled state and the pending emissions alternate and end
\* with the thread's last polled state; with nothing pending, is_chrome_active is that
\* state.
EmissionsAlternate ==
    variant = "core" /\ monitor.running =>
        /\ Alternating(StatusChain)
        /\ StatusChain[Len(StatusChain)] = monitor.last_chrome_state

\* A turn of the thread's loop emits the polled state if it differs from the previous
\* one and emits nothing otherwise.
EmitsOnChangeOnly ==
    MonitorRun \/ MonitorRunRaises =>
        signals' = IF monitor'.last_chrome_state # monitor.last_chrome_state
                   THEN Append(signals, monitor'.last_chrome_state)
                   ELSE signals

\* C21: in core.py the thread emits chrome_status_changed exactly when the polled state
\* differs from the previously polled one (False at the start), so the emitted values
\* alternate starting with True, and once every emission has been handled
\* is_chrome_active equals the thread's last polled state.
C21_EmissionsTrackPolls == []EmissionsAlternate /\ [][EmitsOnChangeOnly]_vars

\* The thread has emitted True and then False and both have been handled: the enjoy
\* timer armed by the first is still pending, the thread is running.
C21_Witness ==
    /\ variant = "core" /\ monitor.running /\ signals = <<>>
    /\ ~monitor.last_chrome_state /\ ~self.is_chrome_active
    /\ self.enjoy_timer > 0 /\ monitor.process_cache # <<>>

====
